---------------------------- MODULE Spec2Model ----------------------------
(***************************************************************************)
(* MZone backend (paystack-backend): the subscription fields of a profile  *)
(* row and the request handlers that read and write them.                  *)
(*                                                                         *)
(* The repository holds four revisions of the same Express server:         *)
(*   "otp"       src/unnamed/part_000   OTP sign-up, monthly/yearly plans  *)
(*   "plans"     src/index.js 1-219     no OTP, PLANS catalog              *)
(*   "plansotp"  src/index.js 221-519   OTP sign-up, PLANS catalog         *)
(*   "discount"  src/index.js 521-722   discount codes, no webhook, no /me *)
(* One behaviour of the model is one deployment: rev is chosen in Init and *)
(* never changes.                                                          *)
(*                                                                         *)
(* Every handler is async: it runs to its next await, and other requests   *)
(* run while it waits.  A handler is therefore one action per stretch of   *)
(* code between two awaits; the store (Supabase) and the payment provider  *)
(* (Paystack) answer each call atomically.                                 *)
(*                                                                         *)
(* Time is counted in minutes (Date.now() / 60000); one day is 1440.       *)
(*                                                                         *)
(* The specifications share the variables:                                 *)
(*   Spec      payments, profile fetches and sign-in of registered         *)
(*             accounts, over days                                         *)
(*   AuthSpec  sign-up, e-mail verification and sign-in from an empty      *)
(*             table, over minutes                                         *)
(*   PaySpec   payment initialization and verification against a provider  *)
(*             that holds no transaction yet; PayLive is PaySpec under     *)
(*             the event loop's fairness                                   *)
(***************************************************************************)
EXTENDS Integers, FiniteSets, Sequences, TLC

VARIABLES
    rev,        \* the revision that is deployed
    store,      \* the profiles table: id -> row, or Absent
    txns,       \* the provider's transactions: reference -> transaction, or NoTxn
    clock,      \* Date.now()
    ticks,      \* how often the clock advanced
    reqs,       \* the requests being served: slot -> request, or Idle
    last,       \* the request answered last, with its response
    nreq,       \* how many requests were received
    calls       \* how many calls the payment provider received

vars == <<rev, store, txns, clock, ticks, reqs, last, nreq, calls>>

-----------------------------------------------------------------------------
(* Bounds of the model *)

MaxRequests == 3
MaxTicks == 1
\* The days the clock advances by in one step: past a monthly plan's 30 days.
TickDays == 31

-----------------------------------------------------------------------------
(* Values *)

Null == "null"
NoNum == -1
Absent == [exists |-> FALSE]
NoTxn == [exists |-> FALSE]

Revisions == {"otp", "plans", "plansotp", "discount"}
HasCatalog == rev \in {"plans", "plansotp", "discount"}

UserIds == {"u1", "u2", "u3"}
Refs == {"R1", "R2"}
Slots == {1, 2}

DayMinutes == 1440

NoToken == "no-token"
BadToken == "bad-token"

-----------------------------------------------------------------------------
(* Plan catalog *)

PLANS ==
    [standard_monthly |-> [name |-> "Standard Monthly", amount |-> 1600000, duration |-> 30],
     standard_yearly  |-> [name |-> "Standard Yearly", amount |-> 14500000, duration |-> 365],
     pro_monthly      |-> [name |-> "Pro Monthly", amount |-> 2200000, duration |-> 30],
     pro_yearly       |-> [name |-> "Pro Yearly", amount |-> 22000000, duration |-> 365]]

plans ==
    [monthly |-> [amount |-> 1600000, name |-> "Monthly Plan"],
     yearly  |-> [amount |-> 15360000, name |-> "Yearly Plan"]]

DISCOUNT_CODES ==
    [MZONE50    |-> [percent |-> 56, active |-> TRUE],
     VIP2025    |-> [percent |-> 56, active |-> TRUE],
     LAUNCH2025 |-> [percent |-> 56, active |-> TRUE]]

\* The plan identifiers of the deployed revision's catalog.
Catalog == IF HasCatalog THEN DOMAIN PLANS ELSE DOMAIN plans

\* The plan a payment falls back to when the metadata names none.
DefaultPlan == IF HasCatalog THEN "standard_monthly" ELSE "monthly"

\* metadata?.plan || <default>
MetaPlan(meta) == IF meta.plan = Null THEN DefaultPlan ELSE meta.plan

\* A handler that grants thirty days whatever the plan.
PlanDuration_Mut(plan) == 30

\* PLANS[plan]?.duration || 30   (part_000: plan === 'yearly' ? 365 : 30)
PlanDuration(plan) ==
    IF HasCatalog
    THEN IF plan \in DOMAIN PLANS THEN PLANS[plan].duration ELSE 30
    ELSE IF plan = "yearly" THEN 365 ELSE 30

\* new Date(Date.now() + duration * 24 * 60 * 60 * 1000)
ExpiresAt(now, duration) == now + duration * DayMinutes

-----------------------------------------------------------------------------
(* The store: the profiles table *)

\* The password the accounts of the model were registered with.
Password == "abcdefg123"

\* bcrypt.hash(password, 12), and bcrypt.compare(password, hash)
Hash(password) == <<"bcrypt", password>>
Compare(password, hash) == hash = Hash(password)

\* A row as register inserts it; the columns no insert names are null.
NewRow(email) ==
    [exists |-> TRUE,
     email |-> email,
     password_hash |-> Hash(Password),
     email_verified |-> TRUE,
     otp_code |-> Null,
     otp_expires_at |-> NoNum,
     is_subscribed |-> FALSE,
     subscription_plan |-> Null,
     subscription_ref |-> Null,
     subscription_date |-> NoNum,
     subscription_expires_at |-> NoNum,
     updated_at |-> NoNum,
     discount_code_used |-> Null]

\* supabase.from('profiles').select('*').eq('id', id).single(): the row, or no data.
FindById(id) == IF id \in UserIds THEN store[id] ELSE Absent

\* The ids of the rows whose email column is email.
Matches(email) == {id \in UserIds : store[id].exists /\ store[id].email = email}

\* supabase.from('profiles').select('*').eq('email', email).single(): the row,
\* or no data when no row or more than one row matches.
IdByEmail(email) ==
    IF Cardinality(Matches(email)) = 1
    THEN CHOOSE id \in Matches(email) : TRUE
    ELSE Null
FindByEmail(email) == FindById(IdByEmail(email))

\* supabase.from('profiles').update(patch).eq('id', id): the columns the patch
\* names are overwritten in the row with that id; no row, no change.
UpdateById(id, patch) ==
    IF id \in UserIds /\ store[id].exists
    THEN [store EXCEPT ![id] =
            [f \in DOMAIN @ |-> IF f \in DOMAIN patch THEN patch[f] ELSE @[f]]]
    ELSE store

-----------------------------------------------------------------------------
(* Requests *)

Idle == [op |-> "none", pc |-> "idle"]

InFlight(s) == reqs[s].pc # "idle"

\* How many requests are no longer being served.
Finished == nreq - Cardinality({s \in Slots : InFlight(s)})

\* A request is served in the first slot that serves none.
FreeSlot(s) == ~InFlight(s) /\ \A t \in Slots : t < s => InFlight(t)

\* res.status(code).json({ success, message })
Reply(code, message) == [code |-> code, message |-> message]

\* res.sendStatus(code)
Status(code) == Reply(code, Null)

\* The handler threw outside any try/catch: the request gets no response.
NoReply == Reply(NoNum, Null)

\* The request is answered without a store update.
Answer(s, request, resp) ==
    /\ reqs' = [reqs EXCEPT ![s] = Idle]
    /\ last' = [op |-> request.op, pc |-> "done", req |-> request, resp |-> resp,
                target |-> Null, old |-> Absent]

\* The store applies the update the request in slot s waits for, and the request
\* is answered; old is the row as the update found it.
ApplyUpdate(s, resp) ==
    /\ reqs[s].pc = "update"
    /\ store' = UpdateById(reqs[s].target, reqs[s].patch)
    /\ reqs' = [reqs EXCEPT ![s] = Idle]
    /\ last' = [op |-> reqs[s].op, pc |-> "done", req |-> reqs[s].req, resp |-> resp,
                target |-> reqs[s].target, old |-> FindById(reqs[s].target)]

\* The request in slot s waits for the store to apply its update.
AwaitUpdate(s, request, target, patch) ==
    /\ reqs' = [reqs EXCEPT ![s] =
                  [op |-> request.op, pc |-> "update", req |-> request,
                   target |-> target, patch |-> patch]]
    /\ last' = last

\* What a request body's or a transaction's metadata holds; a missing key is null.
Meta(user_id, plan, duration, discount_code) ==
    [user_id |-> user_id, plan |-> plan, duration |-> duration,
     discount_code |-> discount_code]

\* The plan identifiers a client or a webhook body names in the model: none, a
\* yearly plan of the catalog, and one the catalog does not hold.
YearlyPlan == IF HasCatalog THEN "pro_yearly" ELSE "yearly"
PlanInputs == {Null, YearlyPlan, "bogus"}

\* The tokens a request carries: none, one that fails jwt.verify, or the
\* session of an account (the id the token was signed for).
Tokens == {NoToken, BadToken, "u1", "u2"}

\* verifyToken / auth: the 401 a request without a valid token gets, or none.
AuthReply(token) ==
    IF rev = "discount"
    THEN Status(401)
    ELSE Reply(401, IF token = NoToken THEN "No token provided" ELSE "Invalid token")

\* A middleware that lets any token through that is present.
Authenticated_Mut(token) == token # NoToken

\* jwt.verify(token, JWT_SECRET) succeeds.
Authenticated(token) == token \notin {NoToken, BadToken}

-----------------------------------------------------------------------------
(* The payment provider *)

\* The metadata POST /payment/initialize attaches to the transaction it creates.
InitializeMetadata(user_id, plan, appliedDiscount) ==
    CASE rev = "otp" -> Meta(user_id, plan, NoNum, Null)
      [] rev \in {"plans", "plansotp"} ->
            Meta(user_id, plan, PLANS[plan].duration, Null)
      [] rev = "discount" ->
            Meta(user_id, plan, PLANS[plan].duration, appliedDiscount)

Txn(status, meta) == [exists |-> TRUE, status |-> status, meta |-> meta]

\* The customer pays a transaction that was left open.
Charge(ref) ==
    /\ txns[ref].exists
    /\ txns[ref].status = "abandoned"
    /\ txns' = [txns EXCEPT ![ref].status = "success"]
    /\ UNCHANGED <<rev, store, clock, ticks, reqs, last, nreq, calls>>

-----------------------------------------------------------------------------
(* POST /payment/webhook *)

\* The row the webhook updates: metadata?.user_id.
WebhookTarget(meta) == meta.user_id

\* The columns the webhook writes.
WebhookPatch(ref, meta, now) ==
    LET plan == MetaPlan(meta)
        expires == ExpiresAt(now, PlanDuration(plan))
    IN  IF HasCatalog
        THEN [is_subscribed |-> TRUE,
              subscription_ref |-> ref,
              subscription_plan |-> plan,
              subscription_date |-> now,
              subscription_expires_at |-> expires]
        ELSE [is_subscribed |-> TRUE,
              subscription_ref |-> ref,
              subscription_date |-> now,
              subscription_expires_at |-> expires]

\* The bodies a webhook request carries: the provider's own delivery for a
\* transaction (its status, reference and metadata), and anything else a client
\* may post, the endpoint being open.
WebhookBodies ==
    {[event |-> "charge.success", ref |-> r, meta |-> Meta(m[1], m[2], NoNum, Null)] :
        r \in Refs,
        m \in ({"u1"} \X PlanInputs) \cup {<<Null, Null>>, <<"u3", Null>>}}
    \cup {[event |-> IF txns[r].status = "success" THEN "charge.success"
                     ELSE "charge.failed",
           ref |-> r, meta |-> txns[r].meta] : r \in {x \in Refs : txns[x].exists}}

\* req.body.event === 'charge.success'
IsChargeSuccess(event) == event = "charge.success"

\* The request arrives; on charge.success with a user_id the handler reads the
\* clock and issues the update.
WebhookRecv(s, body) ==
    /\ rev # "discount"
    /\ nreq < MaxRequests
    /\ FreeSlot(s)
    /\ nreq' = nreq + 1
    /\ LET r == [op |-> "webhook", event |-> body.event, ref |-> body.ref,
                 meta |-> body.meta, now |-> clock]
       IN  IF IsChargeSuccess(body.event) /\ WebhookTarget(body.meta) # Null
           THEN AwaitUpdate(s, r, WebhookTarget(body.meta),
                            WebhookPatch(body.ref, body.meta, clock))
           ELSE Answer(s, r, Status(200))
    /\ UNCHANGED <<rev, store, txns, clock, ticks, calls>>

\* The store applies the update and the handler answers.
WebhookUpdate(s) ==
    /\ reqs[s].op = "webhook"
    /\ ApplyUpdate(s, Status(200))
    /\ UNCHANGED <<rev, txns, clock, ticks, nreq, calls>>

-----------------------------------------------------------------------------
(* GET /payment/verify/:reference *)

\* The row verify-payment updates: req.user.id, or meta.user_id in the
\* discount revision.
VerifyTarget(token, meta) == IF rev = "discount" THEN meta.user_id ELSE token

\* The columns verify-payment writes.
VerifyPatch(ref, meta, now) ==
    CASE rev = "otp" ->
            [is_subscribed |-> TRUE,
             subscription_ref |-> ref,
             subscription_date |-> now,
             subscription_expires_at |-> ExpiresAt(now, PlanDuration(MetaPlan(meta))),
             updated_at |-> now]
      [] rev \in {"plans", "plansotp"} ->
            [is_subscribed |-> TRUE,
             subscription_ref |-> ref,
             subscription_plan |-> MetaPlan(meta),
             subscription_date |-> now,
             subscription_expires_at |-> ExpiresAt(now, PlanDuration(MetaPlan(meta)))]
      [] rev = "discount" ->
            [is_subscribed |-> TRUE,
             subscription_plan |-> meta.plan,
             subscription_expires_at |-> ExpiresAt(now, meta.duration),
             discount_code_used |-> meta.discount_code]

\* The discount revision reads meta.duration unguarded: without it the date is
\* invalid and toISOString throws.
VerifyThrows(meta) == rev = "discount" /\ meta.duration = NoNum

\* The answer to a provider call that failed.
VerifyFailedReply ==
    CASE rev = "otp" -> Reply(500, "Failed to verify payment")
      [] rev \in {"plans", "plansotp"} -> Reply(500, "Verification failed")
      [] rev = "discount" -> NoReply

\* The answer to a transaction the provider does not report as a success.
VerifyNotSuccessfulReply ==
    IF rev = "discount" THEN Status(400) ELSE Reply(400, "Payment not successful")

\* The answer once the update is applied.
VerifyActivatedReply ==
    CASE rev = "otp" -> Reply(200, "Payment verified! Subscription activated.")
      [] rev \in {"plans", "plansotp"} -> Reply(200, "Subscription activated!")
      [] rev = "discount" -> Status(200)

\* A handler that takes every status but 'failed' for a success.
IsSuccess_Mut(status) == status # "failed"

\* response.data.data.status === 'success'
IsSuccess(status) == status = "success"

\* The request arrives and, with a valid token, the provider is asked for the
\* transaction (ok: the call succeeds); on a success the handler reads the clock
\* and issues the update.
VerifyCall(s, token, ref, ok) ==
    /\ nreq < MaxRequests
    /\ FreeSlot(s)
    /\ nreq' = nreq + 1
    /\ LET r == [op |-> "verify", token |-> token, ref |-> ref, now |-> clock,
                 called |-> Authenticated(token),
                 status |-> IF Authenticated(token) /\ ok /\ txns[ref].exists
                            THEN txns[ref].status ELSE Null,
                 meta |-> IF Authenticated(token) /\ ok /\ txns[ref].exists
                          THEN txns[ref].meta ELSE Meta(Null, Null, NoNum, Null)]
       IN  IF ~Authenticated(token)
           THEN Answer(s, r, AuthReply(token)) /\ calls' = calls
           ELSE /\ calls' = calls + 1
                /\ IF r.status = Null
                   THEN Answer(s, r, VerifyFailedReply)
                   ELSE IF ~IsSuccess(r.status)
                   THEN Answer(s, r, VerifyNotSuccessfulReply)
                   ELSE IF VerifyThrows(r.meta)
                   THEN Answer(s, r, NoReply)
                   ELSE AwaitUpdate(s, r, VerifyTarget(token, r.meta),
                                    VerifyPatch(ref, r.meta, clock))
    /\ UNCHANGED <<rev, store, txns, clock, ticks>>

\* The store applies the update and the handler answers.
VerifyUpdate(s) ==
    /\ reqs[s].op = "verify"
    /\ ApplyUpdate(s, VerifyActivatedReply)
    /\ UNCHANGED <<rev, txns, clock, ticks, nreq, calls>>

-----------------------------------------------------------------------------
(* GET /auth/me *)

\* A handler that never finds a subscription lapsed.
Lapsed_Never(user, now) == FALSE

\* A handler that compares the expiry with the clock the wrong way round.
Lapsed_Mut(user, now) ==
    user.subscription_expires_at # NoNum /\ user.subscription_expires_at > now

\* user.subscription_expires_at && new Date(user.subscription_expires_at) < new Date()
Lapsed(user, now) ==
    user.subscription_expires_at # NoNum /\ user.subscription_expires_at < now

\* res.json({ success: true, user: { ..., isSubscribed, ... } })
ProfileReply(user, isSubscribed) ==
    [code |-> 200, message |-> Null, isSubscribed |-> isSubscribed,
     subscriptionExpires |-> user.subscription_expires_at]

\* The request arrives and, with a valid token, the row is read; when the
\* subscription has lapsed the handler issues the update that clears the flag.
MeRead(s, token) ==
    /\ rev # "discount"
    /\ nreq < MaxRequests
    /\ FreeSlot(s)
    /\ nreq' = nreq + 1
    /\ LET user == FindById(token)
           r == [op |-> "me", token |-> token, now |-> clock,
                 user |-> IF Authenticated(token) THEN user ELSE Absent]
       IN  IF ~Authenticated(token)
           THEN Answer(s, r, AuthReply(token))
           ELSE IF ~user.exists
           THEN Answer(s, r, Reply(404, "User not found"))
           ELSE IF Lapsed(user, clock)
           THEN AwaitUpdate(s, r, token, [is_subscribed |-> FALSE])
           ELSE Answer(s, r, ProfileReply(user, user.is_subscribed))
    /\ UNCHANGED <<rev, store, txns, clock, ticks, calls>>

\* The store applies the update and the handler answers.
MeUpdate(s) ==
    /\ reqs[s].op = "me"
    /\ ApplyUpdate(s, ProfileReply(reqs[s].req.user, FALSE))
    /\ UNCHANGED <<rev, txns, clock, ticks, nreq, calls>>

-----------------------------------------------------------------------------
(* POST /auth/login *)

\* The e-mail addresses a client signs in with: u1's, and one no account has.
LoginEmails == {"u1", "u3"}
Passwords == {Password, "wrong"}

\* email.toLowerCase(), on the addresses of the model.
ToLowerCase(email) ==
    CASE email = "A@X.com" -> "a@x.com"
      [] email = "B@x.com" -> "b@x.com"
      [] OTHER -> email

\* The answer to an e-mail no single row has, and to a password that does
\* not match.
InvalidCredentialsReply ==
    CASE rev = "otp" -> Reply(400, "Invalid email or password")
      [] rev \in {"plans", "plansotp"} -> Reply(400, "Invalid credentials")
      [] rev = "discount" -> Status(400)

\* A handler that signs in unverified accounts.
NeedsVerification_Mut(user) == FALSE

\* if (!user.email_verified) return 400: the revisions with OTP only.
NeedsVerification(user) == rev \in {"otp", "plansotp"} /\ ~user.email_verified

NeedsVerificationReply ==
    IF rev = "otp" THEN Reply(400, "Please verify your email first")
    ELSE Reply(400, "Please verify email first")

\* jwt.sign({ id: user.id, ... }): the token names the account.
Sign(id) == id

\* res.json({ success: true, token, user: { ..., isSubscribed: user.is_subscribed, ... } })
SessionReply(id, user) ==
    [code |-> 200,
     message |-> IF rev = "otp" THEN "Login successful!" ELSE Null,
     token |-> Sign(id),
     isSubscribed |-> user.is_subscribed,
     subscriptionExpires |-> user.subscription_expires_at]

\* The answer of login to the row it read.
LoginReply(id, user, password) ==
    IF ~user.exists THEN InvalidCredentialsReply
    ELSE IF ~Compare(password, user.password_hash) THEN InvalidCredentialsReply
    ELSE IF NeedsVerification(user) THEN NeedsVerificationReply
    ELSE SessionReply(id, user)

\* The request arrives, the row is read by e-mail and the handler answers from
\* what it read; it writes nothing.
Login(s, email, password) ==
    /\ nreq < MaxRequests
    /\ FreeSlot(s)
    /\ nreq' = nreq + 1
    /\ LET id == IdByEmail(ToLowerCase(email))
           user == FindById(id)
           r == [op |-> "login", email |-> email, password |-> password,
                 now |-> clock, user |-> user]
       IN  Answer(s, r, LoginReply(id, user, password))
    /\ UNCHANGED <<rev, store, txns, clock, ticks, calls>>

-----------------------------------------------------------------------------
(* The clock *)

Tick ==
    /\ ticks < MaxTicks
    /\ clock' = clock + TickDays * DayMinutes
    /\ ticks' = ticks + 1
    /\ UNCHANGED <<rev, store, txns, reqs, last, nreq, calls>>

\* Time passes up to the very instant at which an entitlement of the store
\* expires.
TickToExpiry ==
    /\ ticks < MaxTicks
    /\ \E id \in UserIds :
          /\ store[id].exists
          /\ store[id].subscription_expires_at > clock
          /\ clock' = store[id].subscription_expires_at
    /\ ticks' = ticks + 1
    /\ UNCHANGED <<rev, store, txns, reqs, last, nreq, calls>>

-----------------------------------------------------------------------------
(* The system *)

\* The server starts against a store that holds two registered accounts, u1 and
\* u2, and a provider account that holds two transactions: R1, which
\* /payment/initialize opened for u1 and the yearly plan and which is paid, and
\* R2, which this deployment did not open (its metadata names no plan, no
\* duration and an account, u3, the store does not hold) and which is unpaid.
Init ==
    /\ rev \in Revisions
    /\ store = [id \in UserIds |->
                  IF id = "u3" THEN Absent ELSE NewRow(id)]
    /\ txns = [r \in Refs |->
                 IF r = "R1"
                 THEN Txn("success", InitializeMetadata("u1", YearlyPlan, Null))
                 ELSE Txn("abandoned", Meta("u3", Null, NoNum, Null))]
    /\ clock = 0
    /\ ticks = 0
    /\ reqs = [s \in Slots |-> Idle]
    /\ last = Idle
    /\ nreq = 0
    /\ calls = 0

Next ==
    \/ \E s \in Slots, b \in WebhookBodies : WebhookRecv(s, b)
    \/ \E s \in Slots : WebhookUpdate(s)
    \/ \E s \in Slots, t \in Tokens, r \in Refs, ok \in BOOLEAN : VerifyCall(s, t, r, ok)
    \/ \E s \in Slots : VerifyUpdate(s)
    \/ \E s \in Slots, t \in Tokens : MeRead(s, t)
    \/ \E s \in Slots : MeUpdate(s)
    \/ \E s \in Slots, e \in LoginEmails, p \in Passwords : Login(s, e, p)
    \/ \E r \in Refs : Charge(r)
    \/ Tick
    \/ TickToExpiry

Spec == Init /\ [][Next]_vars

-----------------------------------------------------------------------------
(* Sign-up: the values *)

\* The addresses clients sign up with: one address in two letter cases.
Emails == {"a@x.com", "A@X.com"}

\* Passwords clients sign up with: a valid one, one of fewer than 10
\* characters, one without a digit, one without a letter, and none at all.
SignUpPasswords == {Password, "short", "abcdefghijk", "12345678901", Null}

\* The addresses register is sent: those of Emails, and none at all.
RegisterEmails == Emails \cup {Null}

\* The codes generateOTP draws in the model; Math.random may repeat a code.
Codes == {"111111", "222222"}

\* The minutes a code is valid for: 10 * 60 * 1000 ms.
OtpMinutes == 10

\* The revisions that verify the e-mail address with a code.
HasOtp == rev \in {"otp", "plansotp"}

\* The order in which the store hands out ids.
IdOrder == <<"u1", "u2", "u3">>

\* The id the next inserted row gets (crypto.randomUUID() / the column default).
FreeIds == {i \in DOMAIN IdOrder : ~store[IdOrder[i]].exists}
NewId == IdOrder[CHOOSE i \in FreeIds : \A j \in FreeIds : i <= j]

\* password.length, /[a-zA-Z]/.test(password) and /[0-9]/.test(password), on
\* the passwords of the model.
Length(password) ==
    CASE password = "short" -> 5
      [] password = "abcdefg123" -> 10
      [] OTHER -> 11
HasLetter(password) == password # "12345678901"
HasDigit(password) == password \in {"abcdefg123", "12345678901"}

\* validatePassword
ValidatePassword(password) ==
    IF password = Null \/ Length(password) < 10
    THEN [valid |-> FALSE, message |-> "Password must be at least 10 characters"]
    ELSE IF ~HasLetter(password)
    THEN [valid |-> FALSE, message |-> "Password must contain letters"]
    ELSE IF ~HasDigit(password)
    THEN [valid |-> FALSE, message |-> "Password must contain numbers"]
    ELSE [valid |-> TRUE, message |-> Null]

\* new Date(Date.now() + 10 * 60 * 1000)
OtpExpiresAt(now) == now + OtpMinutes

\* The row POST /auth/register inserts; the discount revision names neither
\* email_verified nor a code.
RegisterRow(email, password, otp, now) ==
    [NewRow(email) EXCEPT
        !.password_hash = Hash(password),
        !.email_verified = CASE rev = "plans" -> TRUE
                             [] HasOtp -> FALSE
                             [] rev = "discount" -> Null,
        !.otp_code = IF HasOtp THEN otp ELSE Null,
        !.otp_expires_at = IF HasOtp THEN OtpExpiresAt(now) ELSE NoNum]

\* supabase.from('profiles').insert(row): the store refuses a row whose e-mail
\* a row already has, and otherwise holds the row under a new id.
InsertFails(row) == Matches(row.email) # {}
Insert(row) == [store EXCEPT ![NewId] = row]

\* supabase.from('profiles').update(patch).eq('email', email)
UpdateByEmail(email, patch) ==
    [id \in UserIds |->
        IF store[id].exists /\ store[id].email = email
        THEN [f \in DOMAIN store[id] |->
                IF f \in DOMAIN patch THEN patch[f] ELSE store[id][f]]
        ELSE store[id]]

\* A response that carries a session token.
TokenReply(code, message, token) ==
    [code |-> code, message |-> message, token |-> token]

\* The store applies the update by e-mail the request in slot s waits for, and
\* the request is answered; old is the row as the update found it.
ApplyUpdateByEmail(s, request, resp) ==
    /\ reqs[s].pc = "update"
    /\ store' = UpdateByEmail(reqs[s].target, reqs[s].patch)
    /\ reqs' = [reqs EXCEPT ![s] = Idle]
    /\ last' = [op |-> reqs[s].op, pc |-> "done", req |-> request, resp |-> resp,
                target |-> reqs[s].target, old |-> FindByEmail(reqs[s].target)]

-----------------------------------------------------------------------------
(* POST /auth/register *)

\* !email || !password || !fullName, the name being sent with every request
\* of the model.
MissingField(email, password) == email = Null \/ password = Null

\* The answer to a request without one of its fields.
MissingFieldReply ==
    CASE rev = "otp" -> Reply(400, "Email, password, and full name are required")
      [] rev \in {"plans", "plansotp"} -> Reply(400, "All fields required")
      [] rev = "discount" -> Status(400)

\* The answer to a password validatePassword rejects.
InvalidPasswordReply(password) == Reply(400, ValidatePassword(password).message)

\* The answer to an e-mail the select found a row for.
ConflictReply == Reply(400, "Email already registered")

\* The answer when the insert returns an error.
InsertFailedReply ==
    IF rev = "discount" THEN Status(500) ELSE Reply(500, "Failed to create account")

\* The answer once the row is inserted; only the revision without OTP signs
\* the new account in.
RegisteredReply(id) ==
    CASE rev = "otp" ->
            Reply(200, "Account created! Check your email for verification code.")
      [] rev = "plansotp" -> Reply(200, "Account created! Check email for OTP.")
      [] rev = "plans" -> TokenReply(200, "Account created!", Sign(id))
      [] rev = "discount" -> Status(200)

\* The request arrives, its fields are checked for presence, the password is
\* validated and the store is asked for a row with the e-mail; the discount
\* revision does neither of the last two and goes on to hash the password (had
\* is recorded for it all the same).  The addresses of the model all have the
\* format the otp revision tests for.
RegisterRecv(s, email, password) ==
    /\ nreq < MaxRequests
    /\ FreeSlot(s)
    /\ nreq' = nreq + 1
    /\ LET r == [op |-> "register", email |-> email, password |-> password,
                 now |-> clock, sent |-> FALSE,
                 had |-> FindByEmail(ToLowerCase(email)).exists]
       IN  IF MissingField(email, password)
           THEN Answer(s, r, MissingFieldReply)
           ELSE IF rev # "discount" /\ ~ValidatePassword(password).valid
           THEN Answer(s, r, InvalidPasswordReply(password))
           ELSE IF rev # "discount" /\ FindByEmail(ToLowerCase(email)).exists
           THEN Answer(s, r, ConflictReply)
           ELSE /\ reqs' = [reqs EXCEPT ![s] =
                              [op |-> "register", pc |-> "insert", req |-> r]]
                /\ last' = last
    /\ UNCHANGED <<rev, store, txns, clock, ticks, calls>>

\* The password is hashed, the code drawn and the clock read; the store takes
\* or refuses the row; the e-mail is sent (mailOk) or not; the handler answers.
RegisterInsert(s, otp, mailOk) ==
    /\ reqs[s].op = "register"
    /\ reqs[s].pc = "insert"
    /\ FreeIds # {}
    /\ LET r == reqs[s].req
           row == RegisterRow(ToLowerCase(r.email), r.password, otp, clock)
       IN  IF InsertFails(row)
           THEN /\ store' = store
                /\ last' = [op |-> "register", pc |-> "done", req |-> r,
                            resp |-> InsertFailedReply,
                            target |-> Null, old |-> Absent]
           ELSE /\ store' = Insert(row)
                /\ last' = [op |-> "register", pc |-> "done",
                            req |-> [r EXCEPT !.sent = mailOk],
                            resp |-> RegisteredReply(NewId),
                            target |-> NewId, old |-> Absent]
    /\ reqs' = [reqs EXCEPT ![s] = Idle]
    /\ UNCHANGED <<rev, txns, clock, ticks, nreq, calls>>

-----------------------------------------------------------------------------
(* POST /auth/verify-otp *)

UserNotFoundReply == Reply(400, "User not found")

AlreadyVerifiedReply ==
    IF rev = "otp" THEN Reply(400, "Email already verified. Please login.")
    ELSE Reply(400, "Already verified")

InvalidOtpReply ==
    IF rev = "otp" THEN Reply(400, "Invalid OTP code") ELSE Reply(400, "Invalid OTP")

OtpExpiredReply ==
    IF rev = "otp" THEN Reply(400, "OTP expired. Please request a new one.")
    ELSE Reply(400, "OTP expired")

VerifiedReply(id) ==
    IF rev = "otp" THEN TokenReply(200, "Email verified successfully!", Sign(id))
    ELSE TokenReply(200, "Email verified!", Sign(id))

\* A handler for which no code ever expires.
OtpExpired_Never(user, now) == FALSE

\* new Date(user.otp_expires_at) < new Date()
OtpExpired(user, now) == user.otp_expires_at < now

\* The update of a successful check; src/index.js leaves otp_expires_at alone.
VerifiedPatch(now) ==
    IF rev = "otp"
    THEN [email_verified |-> TRUE, otp_code |-> Null, otp_expires_at |-> NoNum,
          updated_at |-> now]
    ELSE [email_verified |-> TRUE, otp_code |-> Null]

\* A handler that does not compare the code.
VerifyOtpRefusal_Mut(user, otp, now) ==
    IF ~user.exists THEN UserNotFoundReply
    ELSE IF user.email_verified THEN AlreadyVerifiedReply
    ELSE IF OtpExpired(user, now) THEN OtpExpiredReply
    ELSE NoReply

\* The answer of verify-otp to the row it read, or none when the code is
\* accepted: found, not yet verified, the code equal, the code not expired, in
\* this order.
VerifyOtpRefusal(user, otp, now) ==
    IF ~user.exists THEN UserNotFoundReply
    ELSE IF user.email_verified THEN AlreadyVerifiedReply
    ELSE IF user.otp_code # otp THEN InvalidOtpReply
    ELSE IF OtpExpired(user, now) THEN OtpExpiredReply
    ELSE NoReply

\* The request arrives and the row is read by e-mail; when the code is
\* accepted the handler issues the update.
VerifyOtpRead(s, email, otp) ==
    /\ HasOtp
    /\ nreq < MaxRequests
    /\ FreeSlot(s)
    /\ nreq' = nreq + 1
    /\ LET id == IdByEmail(ToLowerCase(email))
           user == FindById(id)
           r == [op |-> "verify-otp", email |-> email, otp |-> otp, now |-> clock,
                 id |-> id, user |-> user, sent |-> FALSE]
       IN  IF VerifyOtpRefusal(user, otp, clock) # NoReply
           THEN Answer(s, r, VerifyOtpRefusal(user, otp, clock))
           ELSE AwaitUpdate(s, r, ToLowerCase(email), VerifiedPatch(clock))
    /\ UNCHANGED <<rev, store, txns, clock, ticks, calls>>

\* The store applies the update and the handler answers with a token.
VerifyOtpUpdate(s) ==
    /\ reqs[s].op = "verify-otp"
    /\ ApplyUpdateByEmail(s, reqs[s].req, VerifiedReply(reqs[s].req.id))
    /\ UNCHANGED <<rev, txns, clock, ticks, nreq, calls>>

-----------------------------------------------------------------------------
(* POST /auth/resend-otp *)

ResendAlreadyVerifiedReply ==
    IF rev = "otp" THEN Reply(400, "Email already verified")
    ELSE Reply(400, "Already verified")

ResentReply ==
    IF rev = "otp" THEN Reply(200, "New OTP sent to your email")
    ELSE Reply(200, "New OTP sent!")

\* catch (error): resend.emails.send threw after the update.
ResendFailedReply ==
    IF rev = "otp" THEN Reply(500, "Server error. Please try again.")
    ELSE Reply(500, "Server error")

\* { otp_code: otp, otp_expires_at: new Date(Date.now() + 10 * 60 * 1000) }
ResendPatch(otp, now) == [otp_code |-> otp, otp_expires_at |-> OtpExpiresAt(now)]

\* A handler that issues a code to any account it finds.
ResendRefusal_Mut(user) == IF ~user.exists THEN UserNotFoundReply ELSE NoReply

\* The answer of resend-otp to the row it read, or none when a code is issued.
ResendRefusal(user) ==
    IF ~user.exists THEN UserNotFoundReply
    ELSE IF user.email_verified THEN ResendAlreadyVerifiedReply
    ELSE NoReply

\* The request arrives and the row is read by e-mail; for an unverified account
\* the handler draws a code, reads the clock and issues the update.
ResendOtpRead(s, email, otp) ==
    /\ HasOtp
    /\ nreq < MaxRequests
    /\ FreeSlot(s)
    /\ nreq' = nreq + 1
    /\ LET user == FindByEmail(ToLowerCase(email))
           r == [op |-> "resend-otp", email |-> email, otp |-> otp, now |-> clock,
                 user |-> user, sent |-> FALSE]
       IN  IF ResendRefusal(user) # NoReply
           THEN Answer(s, r, ResendRefusal(user))
           ELSE AwaitUpdate(s, r, ToLowerCase(email), ResendPatch(otp, clock))
    /\ UNCHANGED <<rev, store, txns, clock, ticks, calls>>

\* The store applies the update, the e-mail is sent (mailOk) or the send
\* throws, and the handler answers.
ResendOtpUpdate(s, mailOk) ==
    /\ reqs[s].op = "resend-otp"
    /\ ApplyUpdateByEmail(s, [reqs[s].req EXCEPT !.sent = mailOk],
                          IF mailOk THEN ResentReply ELSE ResendFailedReply)
    /\ UNCHANGED <<rev, txns, clock, ticks, nreq, calls>>

-----------------------------------------------------------------------------
(* Sign-up: the system *)

\* The minutes the clock advances by in one step: past the life of a code.
OtpTickMinutes == 11

AuthTick ==
    /\ ticks < MaxTicks
    /\ clock' = clock + OtpTickMinutes
    /\ ticks' = ticks + 1
    /\ UNCHANGED <<rev, store, txns, reqs, last, nreq, calls>>

\* The server starts against an empty profiles table.
AuthInit ==
    /\ rev \in Revisions
    /\ store = [id \in UserIds |-> Absent]
    /\ txns = [r \in Refs |-> NoTxn]
    /\ clock = 0
    /\ ticks = 0
    /\ reqs = [s \in Slots |-> Idle]
    /\ last = Idle
    /\ nreq = 0
    /\ calls = 0

AuthNext ==
    \/ \E s \in Slots, e \in RegisterEmails, p \in SignUpPasswords : RegisterRecv(s, e, p)
    \/ \E s \in Slots, c \in Codes, ok \in BOOLEAN : RegisterInsert(s, c, ok)
    \/ \E s \in Slots, e \in Emails, c \in Codes : VerifyOtpRead(s, e, c)
    \/ \E s \in Slots : VerifyOtpUpdate(s)
    \/ \E s \in Slots, e \in Emails, c \in Codes : ResendOtpRead(s, e, c)
    \/ \E s \in Slots, ok \in BOOLEAN : ResendOtpUpdate(s, ok)
    \/ \E s \in Slots, e \in Emails, p \in Passwords : Login(s, e, p)
    \/ AuthTick

AuthSpec == AuthInit /\ [][AuthNext]_vars

-----------------------------------------------------------------------------
(* POST /payment/initialize *)

\* A discount code a client sends as a JSON number, not a string.
NumberCode == "#2025"

\* What clients send as discountCode: nothing, a code of DISCOUNT_CODES in
\* either letter case, a code DISCOUNT_CODES does not hold, and a number.
DiscountInputs == {Null, "MZONE50", "mzone50", "NOPE", NumberCode}

\* The tokens an initialize request carries: none, one that fails jwt.verify,
\* u1's session, and the session of an account whose row is gone.
InitTokens == {NoToken, BadToken, "u1", "u3"}

\* A handler that matches discount codes in the letter case they are sent in.
ToUpperCase_Mut(code) == code

\* discountCode.toUpperCase(), on the codes of the model.
ToUpperCase(code) == IF code = "mzone50" THEN "MZONE50" ELSE code

\* DISCOUNT_CODES[code]?.active
Active(code) == code \in DOMAIN DISCOUNT_CODES /\ DISCOUNT_CODES[code].active

\* A handler that rounds the discounted amount up.
Discounted_Up(amount, percent) ==
    (amount \div 100) * (100 - percent)
        + ((amount % 100) * (100 - percent) + 99) \div 100

\* Math.floor(amount * (100 - percent) / 100).  The product is below 2^53 and
\* exact in the code; it is computed by hundreds here to stay within 32 bits.
Discounted(amount, percent) ==
    (amount \div 100) * (100 - percent)
        + ((amount % 100) * (100 - percent)) \div 100

\* The plan whose price is charged: PLANS[plan], or plans[plan] || plans.monthly.
BaseAmount(plan) ==
    IF HasCatalog THEN PLANS[plan].amount
    ELSE IF plan \in DOMAIN plans THEN plans[plan].amount ELSE plans.monthly.amount

\* The code the discount revision applies, or none: if (discountCode) { ... }
AppliedDiscount(discountCode) ==
    IF rev = "discount" /\ discountCode # Null /\ Active(ToUpperCase(discountCode))
    THEN ToUpperCase(discountCode)
    ELSE Null

\* The amount sent to the provider.
Amount(plan, discountCode) ==
    IF AppliedDiscount(discountCode) # Null
    THEN Discounted(BaseAmount(plan),
                    DISCOUNT_CODES[AppliedDiscount(discountCode)].percent)
    ELSE BaseAmount(plan)

\* The transaction the provider opens: unpaid, with the amount and the metadata
\* it was sent.
Opened(amount, meta) ==
    [exists |-> TRUE, status |-> "abandoned", meta |-> meta, amount |-> amount]

\* The reference the provider gives the next transaction.
RefOrder == <<"R1", "R2">>
FreeRefs == {i \in DOMAIN RefOrder : ~txns[RefOrder[i]].exists}
NewRef == RefOrder[CHOOSE i \in FreeRefs : \A j \in FreeRefs : i <= j]

\* The handler goes on to its next call.
Proceed == Reply(0, Null)

\* What the handler answers before it calls the provider, if anything.  The
\* discount revision has no try/catch: toUpperCase of a number and user.email
\* of no row throw, and the request gets no response.
InitializeRefusal(plan, discountCode, user) ==
    CASE rev = "otp" ->
            IF ~user.exists THEN Reply(404, "User not found")
            ELSE IF ~user.email_verified
            THEN Reply(400, "Please verify your email first")
            ELSE Proceed
      [] rev = "plans" ->
            IF plan \notin DOMAIN PLANS THEN Reply(400, "Invalid plan")
            ELSE IF ~user.exists THEN Reply(400, "User not found")
            ELSE Proceed
      [] rev = "plansotp" ->
            IF plan \notin DOMAIN PLANS
            THEN Reply(400, "Invalid plan. Available plans: standard_monthly, standard_yearly, pro_monthly, pro_yearly")
            ELSE IF ~user.exists \/ ~user.email_verified
            THEN Reply(400, "Verify email first")
            ELSE Proceed
      [] rev = "discount" ->
            IF plan \notin DOMAIN PLANS THEN Status(400)
            ELSE IF discountCode = NumberCode THEN NoReply
            ELSE IF ~user.exists THEN NoReply
            ELSE Proceed

\* catch (error): the provider call failed.
InitializeFailedReply ==
    CASE rev = "otp" -> Reply(500, "Failed to initialize payment")
      [] rev \in {"plans", "plansotp"} -> Reply(500, "Payment init failed")
      [] rev = "discount" -> NoReply

\* res.json({ success: true, authorization_url, reference })
InitializedReply(ref) == [code |-> 200, message |-> Null, reference |-> ref]

\* The request arrives and, with a valid token, is validated and the row of
\* the session's account is read; the handler then sends the provider the
\* amount and the metadata.
InitializeRead(s, token, plan, discountCode) ==
    /\ nreq < MaxRequests
    /\ FreeSlot(s)
    /\ nreq' = nreq + 1
    /\ LET user == IF Authenticated(token) THEN FindById(token) ELSE Absent
           refusal == InitializeRefusal(plan, discountCode, user)
           r == [op |-> "initialize", token |-> token, plan |-> plan,
                 code |-> discountCode, now |-> clock, user |-> user,
                 called |-> FALSE, ok |-> FALSE, ref |-> Null]
       IN  IF ~Authenticated(token)
           THEN Answer(s, r, AuthReply(token))
           ELSE IF refusal # Proceed
           THEN Answer(s, r, refusal)
           ELSE /\ reqs' = [reqs EXCEPT ![s] =
                              [op |-> "initialize", pc |-> "call", req |-> r,
                               amount |-> Amount(plan, discountCode),
                               meta |-> InitializeMetadata(
                                            token, plan,
                                            AppliedDiscount(discountCode))]]
                /\ last' = last
    /\ UNCHANGED <<rev, store, txns, clock, ticks, calls>>

\* A handler that subscribes the account as soon as the provider opens the
\* transaction.
InitializeCall_Mut(s, ok) ==
    /\ reqs[s].op = "initialize"
    /\ reqs[s].pc = "call"
    /\ ok => FreeRefs # {}
    /\ calls' = calls + 1
    /\ IF ok
       THEN /\ txns' = [txns EXCEPT ![NewRef] = Opened(reqs[s].amount, reqs[s].meta)]
            /\ store' = UpdateById(reqs[s].req.token, [is_subscribed |-> TRUE])
            /\ Answer(s, [reqs[s].req EXCEPT !.called = TRUE, !.ok = TRUE,
                                             !.ref = NewRef],
                      InitializedReply(NewRef))
       ELSE /\ txns' = txns
            /\ store' = store
            /\ Answer(s, [reqs[s].req EXCEPT !.called = TRUE],
                      InitializeFailedReply)
    /\ UNCHANGED <<rev, clock, ticks, nreq>>

\* The provider opens the transaction (ok) or the call fails, and the handler
\* answers.
InitializeCall(s, ok) ==
    /\ reqs[s].op = "initialize"
    /\ reqs[s].pc = "call"
    /\ ok => FreeRefs # {}
    /\ calls' = calls + 1
    /\ IF ok
       THEN /\ txns' = [txns EXCEPT ![NewRef] = Opened(reqs[s].amount, reqs[s].meta)]
            /\ Answer(s, [reqs[s].req EXCEPT !.called = TRUE, !.ok = TRUE,
                                             !.ref = NewRef],
                      InitializedReply(NewRef))
       ELSE /\ txns' = txns
            /\ Answer(s, [reqs[s].req EXCEPT !.called = TRUE],
                      InitializeFailedReply)
    /\ UNCHANGED <<rev, store, clock, ticks, nreq>>

-----------------------------------------------------------------------------
(* Payments: the system *)

\* The server starts against a store that holds two registered accounts, u1
\* and u2, and a provider account that holds no transaction yet.
PayInit ==
    /\ rev \in Revisions
    /\ store = [id \in UserIds |-> IF id = "u3" THEN Absent ELSE NewRow(id)]
    /\ txns = [r \in Refs |-> NoTxn]
    /\ clock = 0
    /\ ticks = 0
    /\ reqs = [s \in Slots |-> Idle]
    /\ last = Idle
    /\ nreq = 0
    /\ calls = 0

PayNext ==
    \/ \E s \in Slots, t \in InitTokens, p \in PlanInputs, d \in DiscountInputs :
          InitializeRead(s, t, p, d)
    \/ \E s \in Slots, ok \in BOOLEAN : InitializeCall(s, ok)
    \/ \E r \in Refs : Charge(r)
    \/ \E s \in Slots, t \in Tokens, r \in Refs, ok \in BOOLEAN : VerifyCall(s, t, r, ok)
    \/ \E s \in Slots : VerifyUpdate(s)

PaySpec == PayInit /\ [][PayNext]_vars

\* Once the call a handler awaits has been answered, the event loop runs the
\* handler on; clients need not send requests and customers need not pay.
PayLive ==
    /\ PaySpec
    /\ \A s \in Slots :
          /\ WF_vars(\E ok \in BOOLEAN : InitializeCall(s, ok))
          /\ WF_vars(VerifyUpdate(s))

-----------------------------------------------------------------------------
(* The routes behind the token check: the system *)

\* The server of PayInit serving the three routes that require a session:
\* profile fetches, payment initialization and payment verification.
AccessNext ==
    \/ PayNext
    \/ \E s \in Slots, t \in Tokens : MeRead(s, t)
    \/ \E s \in Slots : MeUpdate(s)
    \/ Tick

AccessSpec == PayInit /\ [][AccessNext]_vars

-----------------------------------------------------------------------------
(* Properties: the vocabulary *)

\* The entitlement a row holds.
Sub(row) ==
    [is_subscribed |-> row.is_subscribed,
     subscription_plan |-> row.subscription_plan,
     subscription_ref |-> row.subscription_ref,
     subscription_expires_at |-> row.subscription_expires_at]

\* This step answers a request: last' is that request.
Finishes == Finished' = Finished + 1

\* This step applies the store update of a verify-payment or webhook request,
\* and the update finds a row.
Applies ==
    /\ Finishes
    /\ last'.op \in {"verify", "webhook"}
    /\ last'.target # Null
    /\ last'.old.exists

\* The request carries what the provider holds for its reference: a paid
\* transaction and that transaction's metadata.
Genuine(request) ==
    /\ txns[request.ref].exists
    /\ txns[request.ref].status = "success"
    /\ request.meta = txns[request.ref].meta

\* Slot s holds a verify-payment or webhook request for a paid transaction
\* whose update the store has yet to apply.
Pending(s, op) ==
    /\ reqs[s].pc = "update"
    /\ reqs[s].op = op
    /\ Genuine(reqs[s].req)

\* The store after the update slot s waits for, were it applied now.
After(s) == UpdateById(reqs[s].target, reqs[s].patch)

\* The plan an event resolves to: the one its metadata names when the catalog
\* holds it, the default plan otherwise.
ResolvedPlan(meta) == IF meta.plan \in Catalog THEN meta.plan ELSE DefaultPlan

\* The days a plan of the catalog grants.
DurationDays(plan) ==
    IF HasCatalog THEN PLANS[plan].duration
    ELSE IF plan = "yearly" THEN 365 ELSE 30

\* The row holds the entitlement an earlier application of this very event
\* (its reference, its metadata) gave it, at the time subscription_date.
HoldsEvent(row, request) ==
    /\ row.subscription_ref = request.ref
    /\ row.subscription_date # NoNum
    /\ row.subscription_expires_at
          = row.subscription_date
              + DurationDays(ResolvedPlan(request.meta)) * DayMinutes

\* The request is a payment event that reports a success.
SuccessEvent(l) ==
    \/ l.op = "verify" /\ l.req.status = "success"
    \/ l.op = "webhook" /\ l.req.event = "charge.success"

\* The request is a payment event that reports anything but a success.
OtherEvent(l) ==
    \/ l.op = "verify" /\ l.req.status \notin {Null, "success"}
    \/ l.op = "webhook" /\ l.req.event # "charge.success"

-----------------------------------------------------------------------------
(* C1..C10 *)

\* C1: applying a paid reference R to an account that already holds R as its
\* subscription_ref (through verify-payment or the webhook, the clock advanced
\* or not) leaves the account's entitlement as the first application left it.
C1_SecondApplicationChangesNothing ==
    [][(Applies /\ Genuine(last'.req) /\ HoldsEvent(last'.old, last'.req))
        => Sub(store'[last'.target]) = Sub(last'.old)]_vars

\* C2: when a verify-payment request (made by the account that paid) and a
\* webhook request for the same paid reference are both in flight, the account
\* is written for it once: the two updates they wait for are one and the same
\* write (the same row, the same expiry), so whichever the store applies second
\* overwrites nothing the first stored.
C2_ConcurrentApplicationsWriteOnce ==
    \A s, t \in Slots :
        (Pending(s, "verify") /\ Pending(t, "webhook")
            /\ reqs[s].req.ref = reqs[t].req.ref
            /\ reqs[s].req.token = reqs[s].req.meta.user_id)
        => /\ reqs[s].target = reqs[t].target
           /\ reqs[s].patch.subscription_expires_at
                = reqs[t].patch.subscription_expires_at

\* C3: verify-payment updates the account the transaction's metadata names,
\* and when the session's account is another one, the session's account keeps
\* its entitlement.
C3_VerifyAppliesToMetadataIdentity ==
    [][(Applies /\ last'.op = "verify")
        => /\ last'.target = last'.req.meta.user_id
           /\ (last'.req.token # last'.req.meta.user_id
                  => Sub(store'[last'.req.token]) = Sub(store[last'.req.token]))]_vars

\* C4: a verify-payment and a webhook request for the same paid transaction
\* that read the same clock value leave a store in the same state: applied to
\* the store as it is, their updates give every account the same entitlement.
C4_VerifyAndWebhookAgree ==
    \A s, t \in Slots :
        (Pending(s, "verify") /\ Pending(t, "webhook")
            /\ reqs[s].req.ref = reqs[t].req.ref
            /\ reqs[s].req.now = reqs[t].req.now)
        => \A id \in UserIds :
              store[id].exists => Sub(After(s)[id]) = Sub(After(t)[id])

\* C5: after a paid event whose reference the account does not hold yet is
\* applied to an existing account, the account has is_subscribed = true,
\* subscription_plan = the resolved plan, subscription_ref = the event's
\* reference and subscription_expires_at = the new expiry, all four written by
\* the one update.
C5_AppliedEventSetsAllFour ==
    [][(Applies /\ Genuine(last'.req)
            /\ last'.old.subscription_ref # last'.req.ref)
        => Sub(store'[last'.target])
             = [is_subscribed |-> TRUE,
                subscription_plan |-> ResolvedPlan(last'.req.meta),
                subscription_ref |-> last'.req.ref,
                subscription_expires_at |->
                    last'.req.now
                      + DurationDays(ResolvedPlan(last'.req.meta)) * DayMinutes]]_vars

\* C6: whenever a payment event is applied to an account, the expiry stored
\* is the clock value the handler read plus the days of the plan the event
\* resolves to in the catalog, whatever expiry the account held before.
C6_ExpiryIsNowPlusPlanDuration ==
    [][Applies
        => store'[last'.target].subscription_expires_at
             = last'.req.now
                 + DurationDays(ResolvedPlan(last'.req.meta)) * DayMinutes]_vars

\* C6, the case: an account that held an unexpired entitlement under another
\* reference was paid for again, and its expiry is now earlier than it was.
C6_Witness ==
    /\ last.op \in {"verify", "webhook"}
    /\ last.target # Null
    /\ last.old.exists
    /\ last.old.subscription_ref \notin {Null, last.req.ref}
    /\ last.old.subscription_expires_at > last.req.now
    /\ store[last.target].subscription_expires_at
          = last.req.now + 30 * DayMinutes
    /\ store[last.target].subscription_expires_at
          < last.old.subscription_expires_at

\* C7 as stated: an event that is not a success changes no row, and
\* verify-payment answers 'Payment not successful'.
C7_NotSuccessfulMessage ==
    [][(Finishes /\ OtherEvent(last'))
        => /\ store' = store
           /\ last'.op = "verify"
                => last'.resp = Reply(400, "Payment not successful")]_vars

\* C7, amended: an event that is not a success changes no row, and
\* verify-payment answers 400, with the message 'Payment not successful' in
\* every revision but the discount one, whose answer carries no message.
C7_NonSuccessChangesNothing ==
    [][(Finishes /\ OtherEvent(last'))
        => /\ store' = store
           /\ last'.op = "verify"
                => last'.resp
                     = Reply(400, IF rev = "discount" THEN Null
                                  ELSE "Payment not successful")]_vars

\* C7, the case: the discount revision answered a verify-payment for an unpaid
\* transaction.
C7_Witness ==
    /\ rev = "discount"
    /\ last.op = "verify"
    /\ last.req.status = "abandoned"
    /\ last.resp.code = 400
    /\ \A id \in UserIds : store[id].exists => ~store[id].is_subscribed

\* C8: an event whose plan is missing or not in the catalog is applied with
\* the default plan, so that the subscription_plan of a row is always null or
\* an identifier of the catalog.
C8_StoredPlanIsInCatalog ==
    \A id \in UserIds :
        store[id].exists => store[id].subscription_plan \in Catalog \cup {Null}

\* C9: a paid event whose metadata names no existing account changes no row
\* and creates none, on the webhook path and on the verify-payment path.
C9_UnknownAccountChangesNothing ==
    [][(Finishes /\ SuccessEvent(last')
            /\ ~FindById(last'.req.meta.user_id).exists)
        => store' = store]_vars

\* C10: a profile fetch returns isSubscribed = true only for a row that is
\* flagged subscribed and whose expiry, if any, has not passed; for a row whose
\* expiry has passed it returns false and the store holds false once it
\* answers; and no step of a profile fetch calls the payment provider.
C10_LazyExpiry ==
    [][/\ (Finishes /\ last'.op = "me" /\ last'.resp.code = 200)
            => LET user == last'.req.user
                   passed == /\ user.subscription_expires_at # NoNum
                             /\ user.subscription_expires_at < last'.req.now
               IN  /\ last'.resp.isSubscribed = (user.is_subscribed /\ ~passed)
                   /\ passed => ~store'[last'.req.token].is_subscribed
       /\ ((Finishes /\ last'.op = "me")
             \/ \E s \in Slots : reqs'[s].op = "me" /\ reqs[s].op # "me")
            => calls' = calls]_vars

\* C10, the case: a later fetch, of a row whose expiry has passed and whose
\* flag an earlier fetch cleared, returned false and left false in the store.
C10_Witness ==
    /\ last.op = "me"
    /\ last.resp.code = 200
    /\ last.req.user.subscription_expires_at # NoNum
    /\ last.req.user.subscription_expires_at < last.req.now
    /\ ~last.req.user.is_subscribed
    /\ ~last.resp.isSubscribed
    /\ ~store[last.req.token].is_subscribed

\* C11: login re-evaluates the entitlement: a login that succeeds for an
\* account whose subscription_expires_at has passed returns isSubscribed =
\* false, and the store holds is_subscribed = false when it answers.
C11_LoginReevaluatesEntitlement ==
    [][(Finishes /\ last'.op = "login" /\ last'.resp.code = 200
            /\ last'.req.user.subscription_expires_at # NoNum
            /\ last'.req.user.subscription_expires_at < last'.req.now)
        => /\ ~last'.resp.isSubscribed
           /\ ~store'[last'.resp.token].is_subscribed]_vars

\* The account a payment or a profile fetch wrote or re-evaluated.
Evaluated(l) == IF l.op = "me" THEN l.req.token ELSE l.target

\* The step is a payment applied to an account, or a profile fetch answered
\* with the profile.
Evaluates ==
    \/ Applies
    \/ Finishes /\ last'.op = "me" /\ last'.resp.code = 200

\* C12 as stated: a row with is_subscribed = true has a non-null
\* subscription_expires_at, and once a payment or a profile fetch has written
\* or re-evaluated it, one that is later than the clock value that request read.
C12_SubscribedExpiresLater ==
    [][/\ \A id \in UserIds :
            (store'[id].exists /\ store'[id].is_subscribed)
                => store'[id].subscription_expires_at # NoNum
       /\ Evaluates
            => LET row == store'[Evaluated(last')]
               IN  row.is_subscribed
                     => row.subscription_expires_at > last'.req.now]_vars

\* C12, amended: a row with is_subscribed = true has a non-null
\* subscription_expires_at, and once a payment or a profile fetch has written
\* or re-evaluated it, one that is not earlier than the clock value that
\* request read: a fetch at the very instant of the expiry leaves the flag set.
C12_SubscribedExpiresNotEarlier ==
    [][/\ \A id \in UserIds :
            (store'[id].exists /\ store'[id].is_subscribed)
                => store'[id].subscription_expires_at # NoNum
       /\ Evaluates
            => LET row == store'[Evaluated(last')]
               IN  row.is_subscribed
                     => row.subscription_expires_at >= last'.req.now]_vars

\* C12, the case: a profile fetch made at the instant of the expiry answered
\* isSubscribed = true and the row still holds the flag.
C12_Witness ==
    /\ last.op = "me"
    /\ last.resp.code = 200
    /\ last.resp.isSubscribed
    /\ last.req.user.subscription_expires_at = last.req.now
    /\ store[last.req.token].is_subscribed
    /\ store[last.req.token].subscription_expires_at = last.req.now

\* C13: there is at most one account per e-mail address, letter case aside,
\* and a register request with valid input for an address that had an account
\* when it arrived is answered 400 'Email already registered' and changes no
\* row.
C13_OneAccountPerEmail ==
    [][/\ \A i, j \in UserIds :
            (i # j /\ store'[i].exists /\ store'[j].exists)
                => ToLowerCase(store'[i].email) # ToLowerCase(store'[j].email)
       /\ (Finishes /\ last'.op = "register" /\ last'.req.had
                /\ ValidatePassword(last'.req.password).valid)
            => /\ last'.resp = Reply(400, "Email already registered")
               /\ store' = store]_vars

\* C14: a verify-otp request that reads an account after a check of it has
\* succeeded, or after the expiry of its code, is refused with a 400 and
\* changes no row: a code is accepted at most once.
C14_CodeAcceptedAtMostOnce ==
    [][(Finishes /\ last'.op = "verify-otp" /\ last'.req.user.exists
            /\ (\/ last'.req.user.email_verified
                \/ last'.req.user.otp_expires_at < last'.req.now))
        => /\ last'.resp.code = 400
           /\ store' = store]_vars

\* C14, the case: the code an account was verified with is supplied again, and
\* the request is refused.
C14_Witness ==
    /\ last.op = "verify-otp"
    /\ last.req.user.exists
    /\ last.req.user.email_verified
    /\ last.req.user.otp_code = Null
    /\ last.resp.code = 400
    /\ \E id \in UserIds :
          /\ store[id].exists
          /\ store[id].email = ToLowerCase(last.req.email)
          /\ store[id].email_verified

\* C15: a row with a non-null otp_code has a non-null otp_expires_at and
\* email_verified = false.
C15_CodeImpliesUnverified ==
    \A id \in UserIds :
        (store[id].exists /\ store[id].otp_code # Null)
            => /\ store[id].otp_expires_at # NoNum
               /\ store[id].email_verified = FALSE

\* C16: a verify-otp request that reads an unverified account whose code has
\* expired is answered 'OTP expired' whatever code it supplies, and 'Invalid
\* OTP' is answered only when the code read has not expired.
C16_ExpiredBeforeMismatch ==
    [][(Finishes /\ last'.op = "verify-otp" /\ last'.req.user.exists
            /\ ~last'.req.user.email_verified)
        => /\ last'.req.user.otp_expires_at < last'.req.now
                => last'.resp = OtpExpiredReply
           /\ last'.resp = InvalidOtpReply
                => last'.req.user.otp_expires_at >= last'.req.now]_vars

\* C17: once a verify-otp request has succeeded the row is verified and holds
\* no challenge: email_verified = true, otp_code = null, otp_expires_at = null.
C17_SuccessClearsChallenge ==
    [][(Finishes /\ last'.op = "verify-otp" /\ last'.resp.code = 200)
        => \A id \in UserIds :
              (store'[id].exists /\ store'[id].email = last'.target)
                  => /\ store'[id].email_verified = TRUE
                     /\ store'[id].otp_code = Null
                     /\ store'[id].otp_expires_at = NoNum]_vars

\* A verify-otp request for the account of address email, supplying otp, is
\* accepted in this step: the handler goes on to the update.
Accepts(email, otp) ==
    \E s \in Slots :
        /\ reqs[s].pc = "idle"
        /\ reqs'[s].op = "verify-otp"
        /\ reqs'[s].pc = "update"
        /\ reqs'[s].target = email
        /\ reqs'[s].req.otp = otp

\* C18: once a resend-otp request has succeeded for an unverified account, no
\* verify-otp request that supplies the code the account held before is
\* accepted, whichever code the resend drew.
C18_ResendInvalidatesOldCode ==
    [][(last.op = "resend-otp" /\ last.resp.code = 200
            /\ last.req.user.otp_code # Null)
        => ~Accepts(last.target, last.req.user.otp_code)]_vars

\* C19: a resend-otp request that reads a verified account is answered 400
\* 'already verified', writes no row and sends no e-mail; one that finds no
\* account for the address is answered 400 'User not found' and writes no row.
C19_ResendRefused ==
    [][(Finishes /\ last'.op = "resend-otp")
        => /\ (last'.req.user.exists /\ last'.req.user.email_verified)
                => /\ last'.resp.code = 400
                   /\ last'.resp.message
                        = (IF rev = "otp" THEN "Email already verified"
                           ELSE "Already verified")
                   /\ store' = store
                   /\ ~last'.req.sent
           /\ ~last'.req.user.exists
                => /\ last'.resp = Reply(400, "User not found")
                   /\ store' = store
                   /\ ~last'.req.sent]_vars

\* C19, the case: a new code was asked for an account that a check had
\* verified, and the row still holds no code.
C19_Witness ==
    /\ last.op = "resend-otp"
    /\ last.req.user.exists
    /\ last.req.user.email_verified
    /\ last.resp.code = 400
    /\ \E id \in UserIds :
          /\ store[id].exists
          /\ store[id].email = ToLowerCase(last.req.email)
          /\ store[id].email_verified
          /\ store[id].otp_code = Null

\* The response carries a session token.
HasToken(resp) == "token" \in DOMAIN resp

\* C20: in the revisions with OTP, a login with the account's password is
\* answered 400 'verify email first', without a token, while the row read has
\* email_verified = false, and 200 with a token for the account once a
\* verify-otp has set email_verified; the answer of register carries no token.
C20_LoginGatedByVerification ==
    [][(HasOtp /\ Finishes)
        => /\ (last'.op = "login" /\ last'.req.user.exists
                /\ last'.req.user.password_hash = Hash(last'.req.password))
                => IF last'.req.user.email_verified
                   THEN /\ last'.resp.code = 200
                        /\ HasToken(last'.resp)
                        /\ store'[last'.resp.token].email
                             = ToLowerCase(last'.req.email)
                   ELSE /\ last'.resp.code = 400
                        /\ last'.resp.message
                             = (IF rev = "otp" THEN "Please verify your email first"
                                ELSE "Please verify email first")
                        /\ ~HasToken(last'.resp)
           /\ last'.op = "register" => ~HasToken(last'.resp)]_vars

\* C20, the case: an account was registered, verified with its code, and then
\* signed in.
C20_Witness ==
    /\ HasOtp
    /\ last.op = "login"
    /\ last.resp.code = 200
    /\ HasToken(last.resp)
    /\ last.req.user.email_verified
    /\ last.req.user.otp_code = Null

-----------------------------------------------------------------------------
(* C21..C30 *)

\* The base amounts the discount is checked on: the prices of both catalogs
\* and three amounts that are no multiple of 100, where the floor matters.
BaseAmounts ==
    {PLANS[p].amount : p \in DOMAIN PLANS} \cup {plans[p].amount : p \in DOMAIN plans}
        \cup {1, 99, 1599999}

\* f is the greatest integer with 100 * f <= A * (100 - p), the products taken
\* by hundreds.
IsFloorOfDiscount(f, A, p) ==
    LET g == f - (A \div 100) * (100 - p)
        rest == (A % 100) * (100 - p)
    IN  100 * g <= rest /\ rest < 100 * g + 100

\* resolveDiscount: the percent taken off for a discount code; none for a code
\* that is unknown or inactive, and none where the revision has no codes.
PercentOff(discountCode) ==
    IF rev = "discount" /\ discountCode \notin {Null, NumberCode}
          /\ Active(ToUpperCase(discountCode))
    THEN DISCOUNT_CODES[ToUpperCase(discountCode)].percent
    ELSE 0

\* This step answers an initialize-payment request for which the provider
\* opened a transaction.
Initializes ==
    /\ Finishes
    /\ last'.op = "initialize"
    /\ last'.req.ok

\* C21: for every base amount A and every percent p in 0..100 the discounted
\* amount is floor(A * (100 - p) / 100), is at most A, and is A when p = 0; and
\* the amount of every transaction initialize-payment opened is that amount
\* for the price of the request's plan and the percent of its discount code.
C21_AmountIsFloorOfDiscount ==
    /\ \A A \in BaseAmounts, p \in 0..100 :
          /\ IsFloorOfDiscount(Discounted(A, p), A, p)
          /\ Discounted(A, p) <= A
          /\ (p = 0 => Discounted(A, p) = A)
    /\ [][Initializes =>
            LET A == BaseAmount(last'.req.plan)
                sent == txns'[last'.req.ref].amount
            IN  /\ IsFloorOfDiscount(sent, A, PercentOff(last'.req.code))
                /\ sent <= A
                /\ (PercentOff(last'.req.code) = 0 => sent = A)]_vars

\* A transaction was opened at a discounted price.
C21_Witness ==
    /\ last.op = "initialize"
    /\ last.req.ok
    /\ PercentOff(last.req.code) > 0
    /\ txns[last.req.ref].amount < BaseAmount(last.req.plan)

\* The code names an active entry of DISCOUNT_CODES, in whichever letter case.
Known(discountCode) ==
    \E k \in DOMAIN DISCOUNT_CODES :
        /\ DISCOUNT_CODES[k].active
        /\ \/ discountCode = k
           \/ discountCode = "mzone50" /\ k = "MZONE50"

\* The request fails for a reason other than its discount code: no valid
\* token, a refusal the same request without a code gets, a provider failure.
FailsWithoutCode(request) ==
    \/ ~Authenticated(request.token)
    \/ InitializeRefusal(request.plan, Null, request.user) # Proceed
    \/ request.called /\ ~request.ok

MailFailed(l) ==
    /\ l.op \in {"register", "resend-otp"}
    /\ l.target # Null
    /\ ~l.req.sent

\* C23: when the e-mail send fails during register or resend-otp, the request
\* is still answered with success and the store keeps the change the request
\* made before the send: the new account, or the new code and its expiry.
C23_MailFailureDoesNotAbort ==
    [][(Finishes /\ MailFailed(last')) =>
          /\ last'.resp.code = 200
          /\ last'.op = "register" => store'[last'.target].exists
          /\ last'.op = "resend-otp" =>
                \A id \in Matches(last'.target) :
                    /\ store'[id].otp_code = last'.req.otp
                    /\ store'[id].otp_expires_at = OtpExpiresAt(last'.req.now)]_vars

\* The request called the payment provider and the call failed.
ProviderFailed(l) ==
    \/ l.op = "initialize" /\ l.req.called /\ ~l.req.ok
    \/ l.op = "verify" /\ l.req.called /\ l.req.status = Null

\* C24: when the payment provider call fails inside initialize-payment or
\* verify-payment, the caller is answered with a failure response (a 500) and
\* no field of any account changes.
C24_ProviderFailureIsSurfaced ==
    [][(Finishes /\ ProviderFailed(last')) =>
          /\ last'.resp.code = 500
          /\ store' = store]_vars

\* C25: every request that is received is eventually answered, and what it is
\* answered with is a response: no request is left without one when a provider
\* call fails, when the account looked up is absent, or when a field of the
\* request is missing or malformed.
C25_EveryRequestIsAnswered ==
    /\ [][Finishes => last'.resp # NoReply]_vars
    /\ \A s \in Slots : InFlight(s) ~> ~InFlight(s)

\* This step turns the is_subscribed of account id from false to true.
Activates(id) ==
    /\ store[id].exists
    /\ ~store[id].is_subscribed
    /\ store'[id].is_subscribed

\* The provider holds a paid transaction under the reference.
Paid(ref) == txns[ref].exists /\ txns[ref].status = "success"

\* C26: the is_subscribed of an account becomes true only when the store
\* applies a payment event for a reference under which the provider holds a
\* paid transaction.  A webhook request whose body a client made up, for a
\* transaction nobody paid, sets it for no account.
C26_OnlyProviderSuccessActivates ==
    [][\A id \in UserIds :
          Activates(id) => (Applies /\ Paid(last'.req.ref))]_vars

\* The accounts whose subscription_ref is the reference.
HoldersOf(ref) ==
    {id \in UserIds : store[id].exists /\ store[id].subscription_ref = ref}

\* C27: a payment reference grants entitlement to at most one account: for
\* every reference at most one account holds it as its subscription_ref,
\* however many accounts call verify-payment with it.
C27_OneReferenceOneAccount ==
    \A ref \in Refs : Cardinality(HoldersOf(ref)) <= 1

\* C28: no account is left with a subscription_expires_at in the future and
\* is_subscribed false: the update of a profile fetch that read a lapsed
\* subscription does not undo an activation the store applied after that read.
C28_FetchDoesNotUndoActivation ==
    \A id \in UserIds :
        (store[id].exists /\ store[id].subscription_expires_at > clock)
            => store[id].is_subscribed

\* C29: of verify-otp requests for one account that carry its correct,
\* unexpired code, at most one succeeds, however their reads and updates
\* interleave: no request is answered with a session token when the account
\* its update found was verified already.
C29_OneConcurrentCheckSucceeds ==
    [][(Finishes /\ last'.op = "verify-otp" /\ HasToken(last'.resp))
          => ~last'.old.email_verified]_vars

\* The row the request read fails the check: no row, a verified account, another
\* code than the one sent, or a code whose expiry is before the request's clock.
FailsCheck(request) ==
    \/ ~request.user.exists
    \/ request.user.email_verified
    \/ request.user.otp_code # request.otp
    \/ request.user.otp_expires_at < request.now

\* C30: a verify-otp request that fails (no account, already verified, wrong
\* code or expired code) is answered 400 without a session token and leaves
\* every field of every account as it was.
C30_FailedCheckChangesNothing ==
    [][(Finishes /\ last'.op = "verify-otp" /\ FailsCheck(last'.req)) =>
          /\ last'.resp.code = 400
          /\ ~HasToken(last'.resp)
          /\ store' = store]_vars

\* A verify-otp request with the right code was refused because the code had
\* expired.
C30_Witness ==
    /\ last.op = "verify-otp"
    /\ last.req.user.exists
    /\ ~last.req.user.email_verified
    /\ last.req.user.otp_code = last.req.otp
    /\ last.req.user.otp_expires_at < last.req.now
    /\ last.resp.code = 400

-----------------------------------------------------------------------------
(* C31..C34 *)

\* C31: an initialize-payment request of a signed-in account whose plan is
\* missing or not in the catalog is answered 400, is never passed on to the
\* payment provider, and changes no account.
C31_UnknownPlanIsRejected ==
    [][(Finishes /\ last'.op = "initialize" /\ last'.req.user.exists
            /\ last'.req.plan \notin Catalog) =>
          /\ last'.resp.code = 400
          /\ ~last'.req.called
          /\ calls' = calls
          /\ store' = store]_vars

\* This step is a step of an initialize-payment request: it is received,
\* goes on to its provider call, or is answered.
InitializeStep ==
    \/ \E s \in Slots :
          /\ reqs'[s] # reqs[s]
          /\ "initialize" \in {reqs[s].op, reqs'[s].op}
    \/ Finishes /\ last'.op = "initialize"

\* C32: no step of an initialize-payment request, whatever its outcome,
\* changes any account; an account becomes subscribed only in the step that
\* applies the update of a verify-payment or webhook request.
C32_InitializeKeepsEntitlement ==
    [][/\ InitializeStep => store' = store
       /\ (\E id \in UserIds : Activates(id))
            => (Finishes /\ last'.op \in {"verify", "webhook"})]_vars

\* A transaction was opened for an account, which is as little subscribed as
\* before.
C32_Witness ==
    /\ last.op = "initialize"
    /\ last.req.ok
    /\ txns[last.req.ref].exists
    /\ store[last.req.token] = last.req.user
    /\ ~store[last.req.token].is_subscribed

\* The routes registered with verifyToken / auth.
GatedOps == {"me", "initialize", "verify"}

\* The request carries no token, or one that jwt.verify rejects.
NoSession(token) == token \in {NoToken, BadToken}

\* The request looked up no row and called no provider.
ReadNothing(request) ==
    /\ "user" \in DOMAIN request => request.user = Absent
    /\ "called" \in DOMAIN request => ~request.called

\* C33: a profile, initialize-payment or verify-payment request without a
\* token, or with a token that fails verification, is answered 401 in the step
\* that receives it, having read no row, written no row and called no
\* provider; no such request is ever left waiting for a store or provider
\* call.
C33_NoSessionNoAccess ==
    [][/\ \A s \in Slots :
             (reqs'[s].op \in GatedOps) => ~NoSession(reqs'[s].req.token)
       /\ (Finishes /\ last'.op \in GatedOps /\ NoSession(last'.req.token)) =>
             /\ nreq' = nreq + 1
             /\ last'.resp.code = 401
             /\ ReadNothing(last'.req)
             /\ store' = store
             /\ txns' = txns
             /\ calls' = calls]_vars

\* A verify-payment request with a token that fails verification was
\* answered 401.
C33_Witness ==
    /\ last.op = "verify"
    /\ last.req.token = BadToken
    /\ last.resp.code = 401
    /\ calls = 0


\* What register asks of a request: an address, and a password of at least 10
\* characters with a letter and a digit (the name is sent with every request
\* of the model).
MeetsRules(request) ==
    /\ request.email # Null
    /\ request.password # Null
    /\ Length(request.password) >= 10
    /\ HasLetter(request.password)
    /\ HasDigit(request.password)

\* A row is added to the store.
Inserts == \E id \in UserIds : ~store[id].exists /\ store'[id].exists

\* C34: register creates an account only for a request with its fields present
\* and a password of at least 10 characters with a letter and a digit; any other
\* request is answered 400, creates no account and sends no notification.
C34_RegisterValidatesBeforeCreating ==
    [][/\ Inserts =>
            \E s \in Slots : /\ reqs[s].op = "register"
                             /\ MeetsRules(reqs[s].req)
       /\ (Finishes /\ last'.op = "register" /\ ~MeetsRules(last'.req)) =>
            /\ last'.resp.code = 400
            /\ last'.target = Null
            /\ ~last'.req.sent
            /\ store' = store]_vars

=============================================================================
